---- MODULE Spec2Model ----
(***************************************************************************)
(* Model of the dataset scripts: scripts/1_download_specific.py (the       *)
(* command line validation of __main__, the selection resolver             *)
(* get_download_list, the batch loop of download and the retry loop of     *)
(* hf_download_path), scripts/2_reorganize_to_colmap.py,                   *)
(* scripts/4_copy_selected_scenes.py, scripts/5_rescale_cameras.py and     *)
(* scripts/6_undistort.py.                                                 *)
(* Every script has its own specification over its own variables.          *)
(*                                                                         *)
(* Strings that the code takes apart are sequences of atoms: a path is a   *)
(* sequence such as <<"out", "/", "1K", "/", "h1", ".zip">>, so that       *)
(* str.replace('.zip', '') and os.path.dirname act on what they act on in  *)
(* the code.  An optional integer (argparse default None) is <<>> for None *)
(* and <<n>> for the integer n.                                            *)
(***************************************************************************)
EXTENDS Integers, Sequences, FiniteSets, TLC

VARIABLES
    pc,             \* position of the program
    params,         \* the argparse namespace
    disk,           \* the set of paths that exist under output_dir
    download_list,  \* the list get_download_list returned
    idx,            \* position of download's for loop in download_list (1-based)
    counter,        \* hf_download_path: counter
    succ_count,     \* download: succ_count
    outcome,        \* terminal outcome of every target the loop has finished
    requests,       \* number of api.hf_hub_download calls made by the run
    tries,          \* number of api.hf_hub_download calls made for the current target
    last,           \* what the latest api.hf_hub_download call did
    download_ret,   \* return value of download ("unset" until it returns)
    \* scripts/2_reorganize_to_colmap.py
    extracted,      \* the extracted folder of the scene (input_dir/batch/scene)
    target_scene,   \* the scene folder under output_dir
    reorg_log,      \* what every run of reorganize_dataset did with the scene
    \* scripts/4_copy_selected_scenes.py
    copy_pc,        \* position of copy_scenes
    src_tree,       \* input_dir: the tree of every scene
    dst_tree,       \* output_dir: the tree of every scene
    overwrite,      \* --overwrite
    copy_i,         \* position of copy_scenes' for loop in scenes_to_copy (1-based)
    copy_log,       \* the (success, status) copy_scene returned, scene by scene
    copy_counts,    \* success_count, partial_count, skip_count, error_count
    \* scripts/5_rescale_cameras.py
    scene_dir,      \* the scene folder: images/, sparse/0, sparse/0_backup, sparse/0_txt_temp
    backup,         \* the backup argument of the next call (not --no-backup)
    rescale_log,    \* the (success, message) of every rescale_cameras_for_scene call
    \* scripts/6_undistort.py
    undistort_pc,   \* position of main
    input_scenes,   \* input_dir: for every scene, whether images/ and sparse/0 exist
    output_scenes,  \* output_dir: for every scene, the folder image_undistorter writes
    undistort_i,    \* position of main's for loop in scenes (1-based)
    success_count,  \* main: success_count
    failed_scenes,  \* main: failed_scenes
    undistort_log   \* what every run_colmap_undistort call did

downloadVars == <<pc, params, disk, download_list, idx, counter, succ_count, outcome,
                  requests, tries, last, download_ret>>
reorgVars == <<extracted, target_scene, reorg_log>>
copyVars == <<copy_pc, src_tree, dst_tree, overwrite, copy_i, copy_log, copy_counts>>
rescaleVars == <<scene_dir, backup, rescale_log>>

undistortVars == <<undistort_pc, input_scenes, output_scenes, undistort_i, success_count,
                   failed_scenes, undistort_log>>

vars == <<downloadVars, reorgVars, copyVars, rescaleVars, undistortVars>>

(* Every script is a program of its own, started from its own command line: *)
(* while one of them runs, the variables of the others keep these values.  *)
DownloadIdle ==
    /\ pc = "idle" /\ params = <<>> /\ disk = {} /\ download_list = <<>>
    /\ idx = 0 /\ counter = 0 /\ succ_count = 0 /\ outcome = <<>>
    /\ requests = 0 /\ tries = 0 /\ last = "none" /\ download_ret = "unset"
ReorgIdle == extracted = <<>> /\ target_scene = <<>> /\ reorg_log = <<>>
CopyIdle ==
    /\ copy_pc = "idle" /\ src_tree = <<>> /\ dst_tree = <<>> /\ overwrite = FALSE
    /\ copy_i = 0 /\ copy_log = <<>> /\ copy_counts = <<>>
RescaleIdle == scene_dir = <<>> /\ backup = FALSE /\ rescale_log = <<>>
UndistortIdle ==
    /\ undistort_pc = "idle" /\ input_scenes = <<>> /\ output_scenes = <<>>
    /\ undistort_i = 0 /\ success_count = 0 /\ failed_scenes = <<>> /\ undistort_log = <<>>

----------------------------------------------------------------------------
(* Bounds *)

NumRows == 4        \* rows of the metadata index
MaxList == 2        \* comma separated entries of --hash_list / lines of --hash_file

(* Program constants *)

max_try == 5

----------------------------------------------------------------------------
(* Generic helpers *)

Min(a, b) == IF a < b THEN a ELSE b
Max(a, b) == IF a > b THEN a ELSE b

SeqsUpTo(S, n) == UNION {[1..k -> S] : k \in 0..n}

IsNone(x) == x = <<>>
Some(n) == <<n>>
Val(x) == x[1]

\* Python's seq[start:end] for integers start, end (negative indices count
\* from the end, out of range indices are clamped), as DataFrame.iloc uses it
PyIndex(k, n) == IF k < 0 THEN Max(0, n + k) ELSE Min(k, n)
PySlice(s, start, end) ==
    LET a == PyIndex(start, Len(s))
        b == PyIndex(end, Len(s))
    IN  IF a >= b THEN <<>> ELSE SubSeq(s, a + 1, b)

\* str.strip() on the strings the model uses
strip(h) ==
    CASE h = " h3 " -> "h3"
      [] h = " "    -> ""
      [] OTHER      -> h

----------------------------------------------------------------------------
(* The metadata index DL3DV-valid.csv: columns hash, batch *)

HashNames == <<"h1", "h2", "h3", "h4", "h5", "h6">>
BatchAt(k) == IF k \in {1, 3, 4} THEN "1K" ELSE "2K"
df == [k \in 1..NumRows |-> [hash |-> HashNames[k], batch |-> BatchAt(k)]]

\* h in df['hash'].values
InHashColumn(d, h) == \E k \in 1..Len(d) : d[k].hash = h

\* df[df[col] == v] .reset_index(drop=True): the matching rows, in index order
RECURSIVE RowsWhereBatch(_, _)
RowsWhereBatch(d, b) ==
    IF d = <<>> THEN <<>>
    ELSE IF d[1].batch = b THEN <<d[1]>> \o RowsWhereBatch(Tail(d), b)
    ELSE RowsWhereBatch(Tail(d), b)

RECURSIVE RowsWhereHash(_, _)
RowsWhereHash(d, h) ==
    IF d = <<>> THEN <<>>
    ELSE IF d[1].hash = h THEN <<d[1]>> \o RowsWhereHash(Tail(d), h)
    ELSE RowsWhereHash(Tail(d), h)

\* mutant: the batch column is read without the filter on the hash
BatchOfHash_Unfiltered(d, h) == d[1].batch

\* df[df['hash'] == h]['batch'].values[0]
BatchOfHash(d, h) == RowsWhereHash(d, h)[1].batch

----------------------------------------------------------------------------
(* Paths *)

\* os.path.join(a, b) for a relative b
join(a, b) == a \o <<"/">> \o b

\* str.replace('.zip', ''): every occurrence is removed
RemoveZip(p) == SelectSeq(p, LAMBDA x : x # ".zip")

\* str.endswith('.zip')
EndsWithZip(p) == p # <<>> /\ p[Len(p)] = ".zip"

\* index of the last "/" of p, 0 when there is none
LastSlash(p) ==
    LET S == {k \in 1..Len(p) : p[k] = "/"}
    IN  IF S = {} THEN 0 ELSE CHOOSE k \in S : \A j \in S : j <= k

\* os.path.dirname
dirname(p) == IF LastSlash(p) = 0 THEN <<>> ELSE SubSeq(p, 1, LastSlash(p) - 1)

----------------------------------------------------------------------------
(* get_download_list *)

resolution2repo ==
    [r \in {"480P", "960P", "2K", "4K"} |->
        CASE r = "480P" -> "DL3DV/DL3DV-ALL-480P"
          [] r = "960P" -> "DL3DV/DL3DV-ALL-960P"
          [] r = "2K"   -> "DL3DV/DL3DV-ALL-2K"
          [] r = "4K"   -> "DL3DV/DL3DV-ALL-4K"]

to_download_item(hash_name, reso, batch, file_type) ==
    CASE file_type = "images+poses" ->
            [repo |-> resolution2repo[reso], rel_path |-> <<batch, "/", hash_name, ".zip">>]
      [] file_type = "video" ->
            [repo |-> "DL3DV/DL3DV-ALL-video", rel_path |-> <<batch, "/", hash_name, "/", "video.mp4">>]
      [] file_type = "colmap_cache" ->
            [repo |-> "DL3DV/DL3DV-ALL-ColmapCache", rel_path |-> <<batch, "/", hash_name, ".zip">>]

Raised == [ok |-> FALSE, list |-> <<>>]
Returned(l) == [ok |-> TRUE, list |-> l]

\* mutant: an id that is not in the index is skipped instead of asserted
RECURSIVE FromHashList_SkipsUnknown(_, _, _, _)
FromHashList_SkipsUnknown(hl, reso_opt, file_type, ret) ==
    IF hl = <<>> THEN Returned(ret)
    ELSE LET h == strip(hl[1])
         IN  IF h = "" \/ ~InHashColumn(df, h)
             THEN FromHashList_SkipsUnknown(Tail(hl), reso_opt, file_type, ret)
             ELSE FromHashList_SkipsUnknown(Tail(hl), reso_opt, file_type,
                     Append(ret, to_download_item(h, reso_opt, BatchOfHash(df, h), file_type)))

\* the for loop over hash_list (lines 175-183): an AssertionError leaves the
\* function without a return value, whatever was appended before it
RECURSIVE FromHashList(_, _, _, _)
FromHashList(hl, reso_opt, file_type, ret) ==
    IF hl = <<>> THEN Returned(ret)
    ELSE LET h == strip(hl[1])
         IN  IF h = "" THEN FromHashList(Tail(hl), reso_opt, file_type, ret)
             ELSE IF ~InHashColumn(df, h) THEN Raised
             ELSE FromHashList(Tail(hl), reso_opt, file_type,
                     Append(ret, to_download_item(h, reso_opt, BatchOfHash(df, h), file_type)))

\* lines 186-192
FromHashName(hash_name, reso_opt, file_type) ==
    IF ~InHashColumn(df, hash_name) THEN Raised
    ELSE Returned(<<to_download_item(hash_name, reso_opt, BatchOfHash(df, hash_name), file_type)>>)

\* lines 198-200
StartIdx(offset) ==
    LET start_idx == IF ~IsNone(offset) THEN Val(offset) ELSE 0
    IN  IF start_idx < 0 THEN 0 ELSE start_idx

\* mutant: the window end forgets the window start
EndIdx_FromZero(start_idx, count, n) ==
    LET end_idx == IF ~IsNone(count) THEN Val(count) ELSE n
    IN  IF end_idx > n THEN n ELSE end_idx

\* lines 205-207
EndIdx(start_idx, count, n) ==
    LET end_idx == IF ~IsNone(count) THEN start_idx + Val(count) ELSE n
    IN  IF end_idx > n THEN n ELSE end_idx

\* lines 195-215
FromSubset(subset_opt, reso_opt, file_type, count, offset) ==
    LET subdf == RowsWhereBatch(df, subset_opt)
        start_idx == StartIdx(offset)
    IN  IF start_idx >= Len(subdf) THEN Returned(<<>>)
        ELSE LET window == PySlice(subdf, start_idx, EndIdx(start_idx, count, Len(subdf)))
             IN  Returned([k \in 1..Len(window) |->
                            to_download_item(window[k].hash, reso_opt, subset_opt, file_type)])

\* mutant: the single id is looked at before the id list
get_download_list_HashFirst(subset_opt, hash_name, hash_list, reso_opt, file_type, count, offset) ==
    IF hash_name # "" THEN FromHashName(hash_name, reso_opt, file_type)
    ELSE IF Len(hash_list) > 0 THEN FromHashList(hash_list, reso_opt, file_type, <<>>)
    ELSE FromSubset(subset_opt, reso_opt, file_type, count, offset)

get_download_list(subset_opt, hash_name, hash_list, reso_opt, file_type, count, offset) ==
    IF Len(hash_list) > 0 THEN FromHashList(hash_list, reso_opt, file_type, <<>>)
    ELSE IF hash_name # "" THEN FromHashName(hash_name, reso_opt, file_type)
    ELSE FromSubset(subset_opt, reso_opt, file_type, count, offset)

----------------------------------------------------------------------------
(* __main__: the hash list handed to download_dataset (lines 318-329) *)

\* [h.strip() for h in ... if h.strip()]
RECURSIVE StripNonBlank(_)
StripNonBlank(l) ==
    IF l = <<>> THEN <<>>
    ELSE IF strip(l[1]) = "" THEN StripNonBlank(Tail(l))
    ELSE <<strip(l[1])>> \o StripNonBlank(Tail(l))

\* remove duplicates while preserving order (lines 326-327)
RECURSIVE Dedup(_, _)
Dedup(l, seen) ==
    IF l = <<>> THEN <<>>
    ELSE IF l[1] \in seen THEN Dedup(Tail(l), seen)
    ELSE <<l[1]>> \o Dedup(Tail(l), seen \cup {l[1]})

main_hash_list(raw) == Dedup(StripNonBlank(raw), {})

\* the argument checks of lines 296-307
ArgsRejected(p) ==
    \/ ~IsNone(p.count) /\ p.subset = "None"
    \/ ~IsNone(p.offset) /\ p.subset = "None"
    \/ ~IsNone(p.count) /\ Val(p.count) <= 0
    \/ ~IsNone(p.offset) /\ Val(p.offset) < 0

\* line 332, on the processed hash list
NothingSelected(p, hl) == p.hash = "" /\ hl = <<>> /\ p.subset = "None"

----------------------------------------------------------------------------
(* The file system under output_dir *)

cache_folder(output_dir) == join(output_dir, <<".cache">>)
meta_file(output_dir) == join(cache_folder(output_dir), <<"DL3DV-valid.csv">>)

IsUnder(q, p) ==
    /\ Len(q) > Len(p)
    /\ SubSeq(q, 1, Len(p)) = p
    /\ q[Len(p) + 1] = "/"

\* os.path.exists(p): p itself, or a directory on the way to an existing path
exists(d, p) == \E q \in d : q = p \/ IsUnder(q, p)

\* shutil.rmtree(p)
rmtree(d, p) == {q \in d : q # p /\ ~IsUnder(q, p)}

\* clean_huggingface_cache
clean_huggingface_cache(d, output_dir) ==
    IF exists(d, cache_folder(output_dir)) THEN rmtree(d, cache_folder(output_dir)) ELSE d

\* download, lines 232-233: the path whose existence makes download skip a target
output_path(output_dir, rel_path) == RemoveZip(join(output_dir, rel_path))

\* what api.hf_hub_download leaves on disk when it succeeds: the object at
\* local_dir/filename, and the cache directory
hf_hub_download(d, output_dir, rel_path) ==
    d \cup {join(output_dir, rel_path), cache_folder(output_dir)}

\* lines 246-251: the archive of a scene holds one folder named after the
\* scene; it is extracted into output_dir/dirname(rel_path), then removed
unzip(d, output_dir, rel_path) ==
    LET zip_file == join(output_dir, rel_path)
        ofile == join(output_dir, dirname(rel_path))
        scene == rel_path[Len(rel_path) - 1]
    IN  (d \cup {join(ofile, <<scene>>)}) \ {zip_file}

\* the place where a completed download of `item` leaves the scene
Materialized(output_dir, item) ==
    IF EndsWithZip(item.rel_path)
    THEN join(join(output_dir, dirname(item.rel_path)), <<item.rel_path[Len(item.rel_path) - 1]>>)
    ELSE join(output_dir, item.rel_path)

----------------------------------------------------------------------------
(* The inputs of a run *)

OutputDirs == {<<"out">>, <<"out", ".zip">>}
Subsets == {"None", "1K", "2K"}
Resolutions == {"480P"}
FileTypes == {"images+poses", "video", "colmap_cache"}
HashArgs == {"", "h2", "zz"}
RawHashes == {" h3 ", "zz", ""}
CountArgs == {<<>>, Some(0), Some(1), Some(5)}
OffsetArgs == {<<>>, Some(-1), Some(1), Some(3)}
Responses == {"ok", "transient", "gated", "interrupt"}

Params ==
    [output_dir : OutputDirs, subset : Subsets, resolution : Resolutions,
     file_type : FileTypes, hash : HashArgs, hash_list : SeqsUpTo(RawHashes, MaxList),
     count : CountArgs, offset : OffsetArgs, clean_cache : BOOLEAN]

\* the scene that an earlier run may have left under output_dir
EarlierScene(p) ==
    Materialized(p.output_dir,
                 to_download_item("h3", p.resolution, BatchOfHash(df, "h3"), p.file_type))

Init ==
    /\ pc = "main"
    /\ params \in Params
    /\ disk \in {{}, {EarlierScene(params)}}
    /\ download_list = <<>>
    /\ idx = 0
    /\ counter = 0
    /\ succ_count = 0
    /\ outcome = <<>>
    /\ requests = 0
    /\ tries = 0
    /\ last = "none"
    /\ download_ret = "unset"
    /\ ReorgIdle /\ CopyIdle /\ RescaleIdle /\ UndistortIdle

----------------------------------------------------------------------------
(* __main__ *)

loopVars == <<idx, counter, succ_count, outcome, requests, tries, last, download_ret>>

\* lines 296-307 and 332-334: exit(1) on a bad combination of arguments
MainRejects ==
    /\ UNCHANGED <<reorgVars, copyVars, rescaleVars, undistortVars>>
    /\ pc = "main"
    /\ \/ ArgsRejected(params) /\ UNCHANGED params
       \/ /\ ~ArgsRejected(params)
          /\ NothingSelected(params, main_hash_list(params.hash_list))
          /\ params' = [params EXCEPT !.hash_list = main_hash_list(params.hash_list)]
    /\ pc' = "exit(1)"
    /\ UNCHANGED <<disk, download_list, loopVars>>

\* lines 345-347: verify_access fails
MainNoAccess ==
    /\ UNCHANGED <<reorgVars, copyVars, rescaleVars, undistortVars>>
    /\ pc = "main"
    /\ ~ArgsRejected(params)
    /\ ~NothingSelected(params, main_hash_list(params.hash_list))
    /\ params' = [params EXCEPT !.hash_list = main_hash_list(params.hash_list)]
    /\ pc' = "exit(1)"
    /\ UNCHANGED <<disk, download_list, loopVars>>

\* line 349: download_dataset(params) is called
MainCallsDownloadDataset ==
    /\ UNCHANGED <<reorgVars, copyVars, rescaleVars, undistortVars>>
    /\ pc = "main"
    /\ ~ArgsRejected(params)
    /\ ~NothingSelected(params, main_hash_list(params.hash_list))
    /\ params' = [params EXCEPT !.hash_list = main_hash_list(params.hash_list)]
    /\ pc' = "get_download_list"
    /\ UNCHANGED <<disk, download_list, loopVars>>

----------------------------------------------------------------------------
(* download_dataset: get_download_list *)

Resolve(p) ==
    get_download_list(p.subset, p.hash, p.hash_list, p.resolution, p.file_type,
                      p.count, p.offset)

\* lines 167-169: the metadata file is absent and cannot be downloaded
MetaDownloadFails ==
    /\ UNCHANGED <<reorgVars, copyVars, rescaleVars, undistortVars>>
    /\ pc = "get_download_list"
    /\ ~exists(disk, meta_file(params.output_dir))
    /\ disk' = disk \cup {cache_folder(params.output_dir)}
    /\ pc' = "AssertionError(meta)"
    /\ UNCHANGED <<params, download_list, loopVars>>

\* an assert of lines 179 or 187 fails
GetDownloadListRaises ==
    /\ UNCHANGED <<reorgVars, copyVars, rescaleVars, undistortVars>>
    /\ pc = "get_download_list"
    /\ ~Resolve(params).ok
    /\ disk' = disk \cup {cache_folder(params.output_dir), meta_file(params.output_dir)}
    /\ pc' = "AssertionError(hash)"
    /\ UNCHANGED <<params, download_list, loopVars>>

\* get_download_list returns; download starts (line 226)
GetDownloadListReturns ==
    /\ UNCHANGED <<reorgVars, copyVars, rescaleVars, undistortVars>>
    /\ pc = "get_download_list"
    /\ Resolve(params).ok
    /\ disk' = disk \cup {cache_folder(params.output_dir), meta_file(params.output_dir)}
    /\ download_list' = Resolve(params).list
    /\ idx' = 1
    /\ succ_count' = 0
    /\ pc' = "download"
    /\ UNCHANGED <<params, counter, outcome, requests, tries, last, download_ret>>

----------------------------------------------------------------------------
(* download: the for loop of lines 228-253 *)

item == download_list[idx]

\* mutant: a target that is already there is skipped without being counted
DownloadSkips_NotCounted ==
    /\ UNCHANGED <<reorgVars, copyVars, rescaleVars, undistortVars>>
    /\ pc = "download"
    /\ idx <= Len(download_list)
    /\ exists(disk, output_path(params.output_dir, item.rel_path))
    /\ outcome' = Append(outcome, "already-present")
    /\ idx' = idx + 1
    /\ UNCHANGED <<pc, params, disk, download_list, counter, succ_count, requests, tries, last, download_ret>>

\* lines 235-237: the target is already there
DownloadSkips ==
    /\ UNCHANGED <<reorgVars, copyVars, rescaleVars, undistortVars>>
    /\ pc = "download"
    /\ idx <= Len(download_list)
    /\ exists(disk, output_path(params.output_dir, item.rel_path))
    /\ succ_count' = succ_count + 1
    /\ outcome' = Append(outcome, "already-present")
    /\ idx' = idx + 1
    /\ UNCHANGED <<pc, params, disk, download_list, counter, requests, tries, last, download_ret>>

\* line 238: hf_download_path is called (line 65)
DownloadCallsHfDownloadPath ==
    /\ UNCHANGED <<reorgVars, copyVars, rescaleVars, undistortVars>>
    /\ pc = "download"
    /\ idx <= Len(download_list)
    /\ ~exists(disk, output_path(params.output_dir, item.rel_path))
    /\ counter' = 0
    /\ tries' = 0
    /\ last' = "none"
    /\ pc' = "hf_download_path"
    /\ UNCHANGED <<params, disk, download_list, idx, succ_count, outcome, requests, download_ret>>

\* lines 255-256
DownloadReturns ==
    /\ UNCHANGED <<reorgVars, copyVars, rescaleVars, undistortVars>>
    /\ pc = "download"
    /\ idx > Len(download_list)
    /\ download_ret' = IF succ_count = Len(download_list) THEN "True" ELSE "False"
    /\ pc' = "done"
    /\ UNCHANGED <<params, disk, download_list, idx, counter, succ_count, outcome, requests, tries, last>>

----------------------------------------------------------------------------
(* hf_download_path: the while loop of lines 66-95 *)

\* mutant: GatedRepoError falls through to the clause that retries
Classify_DeniedRetries(r) ==
    CASE r = "ok"        -> "return True"
      [] r = "interrupt" -> "exit"
      [] r = "gated"     -> "retry"
      [] r = "transient" -> "retry"

\* mutant: KeyboardInterrupt only gives up the current target
Classify_InterruptReturns(r) ==
    CASE r = "ok"        -> "return True"
      [] r = "interrupt" -> "return False"
      [] r = "gated"     -> "return False"
      [] r = "transient" -> "retry"

\* what the loop does with the exception (or the return) of api.hf_hub_download
Classify(r) ==
    CASE r = "ok"        -> "return True"
      [] r = "interrupt" -> "exit"
      [] r = "gated"     -> "return False"
      [] r = "transient" -> "retry"

\* mutant: the bound is compared one too late
Exhausted_OffByOne(c) == c > max_try

\* line 67
Exhausted(c) == c >= max_try

\* lines 67-69, then lines 252-253 of download
GivesUp ==
    /\ UNCHANGED <<reorgVars, copyVars, rescaleVars, undistortVars>>
    /\ pc = "hf_download_path"
    /\ Exhausted(counter)
    /\ outcome' = Append(outcome, "failed-after-retries")
    /\ idx' = idx + 1
    /\ pc' = "download"
    /\ UNCHANGED <<params, disk, download_list, counter, succ_count, requests, tries, last, download_ret>>

\* one call of api.hf_hub_download (lines 71-75) and the handling of its outcome
Attempt(r) ==
    /\ UNCHANGED <<reorgVars, copyVars, rescaleVars, undistortVars>>
    /\ pc = "hf_download_path"
    /\ ~Exhausted(counter)
    /\ requests' = requests + 1
    /\ tries' = tries + 1
    /\ last' = r
    /\ UNCHANGED <<params, download_list, download_ret, succ_count>>
    /\ CASE Classify(r) = "return True" ->
              /\ disk' = hf_hub_download(disk, params.output_dir, item.rel_path)
              /\ pc' = "downloaded"
              /\ UNCHANGED <<idx, counter, outcome>>
         [] Classify(r) = "exit" ->
              /\ pc' = "exit()"
              /\ UNCHANGED <<disk, idx, counter, outcome>>
         [] Classify(r) = "return False" ->
              /\ outcome' = Append(outcome, "permanently-denied")
              /\ idx' = idx + 1
              /\ pc' = "download"
              /\ UNCHANGED <<disk, counter>>
         [] Classify(r) = "retry" ->
              /\ counter' = counter + 1
              /\ UNCHANGED <<pc, disk, idx, outcome>>

AttemptSucceeds == Attempt("ok")
AttemptInterrupted == Attempt("interrupt")
AttemptDenied == Attempt("gated")
AttemptFails == Attempt("transient")

----------------------------------------------------------------------------
(* download: lines 240-251, after hf_download_path returned True *)

AfterCleanCache ==
    IF params.clean_cache THEN clean_huggingface_cache(disk, params.output_dir) ELSE disk

\* the archive (if any) is extracted and removed
DownloadUnpacks ==
    /\ UNCHANGED <<reorgVars, copyVars, rescaleVars, undistortVars>>
    /\ pc = "downloaded"
    /\ succ_count' = succ_count + 1
    /\ disk' = IF EndsWithZip(item.rel_path)
               THEN unzip(AfterCleanCache, params.output_dir, item.rel_path)
               ELSE AfterCleanCache
    /\ outcome' = Append(outcome, "fetched")
    /\ idx' = idx + 1
    /\ pc' = "download"
    /\ UNCHANGED <<params, download_list, counter, requests, tries, last, download_ret>>

\* zipfile.ZipFile or extractall raises (lines 248-250): nothing in download
\* catches it
DownloadUnzipRaises ==
    /\ UNCHANGED <<reorgVars, copyVars, rescaleVars, undistortVars>>
    /\ pc = "downloaded"
    /\ EndsWithZip(item.rel_path)
    /\ succ_count' = succ_count + 1
    /\ disk' = AfterCleanCache
    /\ pc' = "ZipError"
    /\ UNCHANGED <<params, download_list, idx, counter, outcome, requests, tries, last, download_ret>>

----------------------------------------------------------------------------

Next ==
    \/ MainRejects
    \/ MainNoAccess
    \/ MainCallsDownloadDataset
    \/ MetaDownloadFails
    \/ GetDownloadListRaises
    \/ GetDownloadListReturns
    \/ DownloadSkips
    \/ DownloadCallsHfDownloadPath
    \/ DownloadReturns
    \/ GivesUp
    \/ AttemptSucceeds
    \/ AttemptInterrupted
    \/ AttemptDenied
    \/ AttemptFails
    \/ DownloadUnpacks
    \/ DownloadUnzipRaises

Spec == Init /\ [][Next]_vars

\* every call of the sequential program returns: a step that can be taken is taken
FairSpec == Spec /\ WF_vars(Next)

Terminated ==
    pc \in {"exit(1)", "AssertionError(meta)", "AssertionError(hash)", "done", "exit()", "ZipError"}

----------------------------------------------------------------------------
(* Vocabulary of the properties *)

\* get_download_list has run on the loaded index and returned a list
GdlReturned == pc \in {"download", "hf_download_path", "downloaded", "done", "exit()", "ZipError"}

\* get_download_list has run on the loaded index and raised
GdlRaised == pc = "AssertionError(hash)"

\* get_download_list has just returned: download is at its first iteration
JustResolved == pc = "download" /\ idx = 1

\* the scene id h has a row in the metadata index
Known(h) == \E k \in 1..NumRows : df[k].hash = h

\* the hash column of a list of targets
SceneOf(t) == t.rel_path[3]
BatchOf(t) == t.rel_path[1]

----------------------------------------------------------------------------
\* C1: for a scene id present in the metadata index, get_download_list with
\* that single id and an empty id list returns exactly one target, and the
\* remote path of that target starts with the batch the index records for
\* the id and names the id.
C1_SingleIdResolves ==
    ((GdlReturned \/ GdlRaised) /\ params.hash_list = <<>> /\ Known(params.hash)) =>
        /\ GdlReturned
        /\ Len(download_list) = 1
        /\ SceneOf(download_list[1]) = params.hash
        /\ \E k \in 1..NumRows :
              df[k].hash = params.hash /\ df[k].batch = BatchOf(download_list[1])

C1_Witness ==
    /\ pc = "download"
    /\ idx = 1
    /\ params.hash_list = <<>>
    /\ params.hash = "h2"
    /\ params.subset = "1K"
    /\ Len(download_list) = 1
    /\ BatchOf(download_list[1]) = "2K"

----------------------------------------------------------------------------
\* C2: with no id list and no single id, get_download_list on a partition of
\* n rows with window (offset, count) returns the targets of the rows at
\* indices [s, e) in index order, s = max(0, offset or 0), e = min(n, s + count)
\* or n when count is omitted; it returns the empty list when s >= n and does
\* not raise; n = 3, offset = 1, count = 5 gives the rows at indices 1 and 2.
C2_PartitionWindow ==
    ((GdlReturned \/ GdlRaised) /\ params.hash_list = <<>> /\ params.hash = "") =>
        LET part == RowsWhereBatch(df, params.subset)
            n == Len(part)
            s == IF IsNone(params.offset) THEN 0 ELSE Max(0, Val(params.offset))
            e == IF IsNone(params.count) THEN n ELSE Min(n, s + Val(params.count))
            target(r) == to_download_item(r.hash, params.resolution, params.subset,
                                          params.file_type)
        IN  /\ GdlReturned
            /\ s >= n => download_list = <<>>
            /\ s < n =>
                  /\ Len(download_list) = e - s
                  /\ \A k \in 1..(e - s) : download_list[k] = target(part[s + k])
            /\ (n = 3 /\ params.offset = Some(1) /\ params.count = Some(5)) =>
                  /\ Len(download_list) = 2
                  /\ download_list[1] = target(part[2])
                  /\ download_list[2] = target(part[3])

C2_Witness ==
    /\ pc = "download"
    /\ idx = 1
    /\ params.hash_list = <<>>
    /\ params.hash = ""
    /\ params.subset = "1K"
    /\ Len(RowsWhereBatch(df, "1K")) = 3
    /\ params.offset = Some(1)
    /\ params.count = Some(5)
    /\ Len(download_list) = 2
    /\ SceneOf(download_list[1]) = "h3"
    /\ SceneOf(download_list[2]) = "h4"

----------------------------------------------------------------------------
\* C3: selection precedence is strict.  With a non-empty id list the result
\* of get_download_list is the same whatever the single id, the partition
\* tag, the offset and the count are; with an empty id list and a non-empty
\* single id it is the same whatever the partition tag, the offset and the
\* count are; the partition window decides only when neither is supplied.
C3_StrictPrecedence ==
    (JustResolved \/ GdlRaised) =>
        LET r == [ok |-> GdlReturned, list |-> download_list]
            gdl(s, h, l, c, o) ==
                get_download_list(s, h, l, params.resolution, params.file_type, c, o)
        IN  /\ params.hash_list # <<>> =>
                \A h \in HashArgs, s \in Subsets, c \in CountArgs, o \in OffsetArgs :
                    gdl(s, h, params.hash_list, c, o) = r
            /\ (params.hash_list = <<>> /\ params.hash # "") =>
                \A s \in Subsets, c \in CountArgs, o \in OffsetArgs :
                    gdl(s, params.hash, <<>>, c, o) = r
            /\ (params.hash_list # <<>> \/ params.hash # "") =>
                \A k \in 1..Len(download_list) :
                    SceneOf(download_list[k]) \in
                        IF params.hash_list # <<>>
                        THEN {params.hash_list[j] : j \in 1..Len(params.hash_list)}
                        ELSE {params.hash}

C3_Witness ==
    /\ pc = "download"
    /\ idx = 1
    /\ params.hash_list = <<"h3">>
    /\ params.hash = "h2"
    /\ params.subset = "1K"
    /\ params.count = Some(5)
    /\ Len(download_list) = 1
    /\ SceneOf(download_list[1]) = "h3"

----------------------------------------------------------------------------
\* C4 as stated: if the id list contains an id absent from the index, or the
\* single id is absent from it, get_download_list raises, returns no list
\* and no fetch is started.
UnknownInList == \E k \in 1..Len(params.hash_list) : ~Known(params.hash_list[k])
UnknownSingle == params.hash # "" /\ ~Known(params.hash)

C4_AnyUnknownIdFails ==
    ((GdlReturned \/ GdlRaised) /\ (UnknownInList \/ UnknownSingle)) =>
        (GdlRaised /\ download_list = <<>> /\ requests = 0)

\* C4 as amended: if the id list contains an id absent from the index, or the
\* id list is empty and the single id is absent from it, get_download_list
\* raises, returns no list (not even the targets of the known ids before the
\* unknown one) and no fetch is started.
C4_SelectedUnknownIdFails ==
    /\ ((GdlReturned \/ GdlRaised)
            /\ (UnknownInList \/ (params.hash_list = <<>> /\ UnknownSingle))) =>
          (GdlRaised /\ download_list = <<>> /\ requests = 0)
    /\ GdlRaised => (download_list = <<>> /\ requests = 0 /\ outcome = <<>> /\ idx = 0)

C4_Witness ==
    /\ pc = "AssertionError(hash)"
    /\ params.hash_list = <<"h3", "zz">>
    /\ download_list = <<>>
    /\ requests = 0

----------------------------------------------------------------------------
\* C5: hf_download_path makes at most max_try calls of api.hf_hub_download
\* for one target: it returns True at the first call that succeeds, and after
\* max_try transient failures in a row it returns False without another
\* call; the loop terminates.
C5_Bounded ==
    /\ tries <= max_try
    /\ pc = "hf_download_path" => (tries = counter /\ last \in {"none", "transient"})
    /\ pc = "downloaded" => last = "ok"

C5_Step ==
    /\ (requests' # requests) =>
          /\ pc = "hf_download_path"
          /\ requests' = requests + 1
          /\ tries' = tries + 1
    /\ (requests' # requests /\ last' = "ok") => pc' = "downloaded"
    /\ (pc = "downloaded") => (requests' = requests /\ pc' # "hf_download_path")
    /\ (pc = "hf_download_path" /\ tries = max_try) =>
          /\ requests' = requests
          /\ outcome' = Append(outcome, "failed-after-retries")
          /\ pc' = "download"
          /\ idx' = idx + 1

C5_AtMostMaxTry ==
    /\ []C5_Bounded
    /\ [][C5_Step]_vars
    /\ (pc = "hf_download_path") ~> (pc # "hf_download_path")

C5_Witness ==
    /\ pc = "download"
    /\ outcome = <<"failed-after-retries">>
    /\ tries = max_try
    /\ requests = max_try
    /\ last = "transient"

----------------------------------------------------------------------------
\* C6: when a call of api.hf_hub_download raises GatedRepoError,
\* hf_download_path returns False at once: the target is closed as
\* permanently denied and the loop of download moves to the next target,
\* however many of the max_try attempts remain and whatever failed before.
\* Calls are only ever made for the target the loop is at, which has no
\* outcome yet, and the loop never moves back: no call follows for a target
\* that was denied.
C6_Step ==
    /\ (requests' # requests /\ last' = "gated") =>
          /\ pc' = "download"
          /\ idx' = idx + 1
          /\ outcome' = Append(outcome, "permanently-denied")
          /\ counter' = counter
    /\ (requests' # requests) =>
          /\ pc = "hf_download_path"
          /\ Len(outcome) = idx - 1
    /\ idx' >= idx
    /\ \A k \in 1..Len(outcome) : Len(outcome') >= k /\ outcome'[k] = outcome[k]

C6_DeniedStopsRetries == [][C6_Step]_vars

C6_Witness ==
    /\ pc = "download"
    /\ Len(download_list) = 2
    /\ outcome = <<"permanently-denied">>
    /\ idx = 2
    /\ last = "gated"
    /\ tries = 3
    /\ counter = 2

----------------------------------------------------------------------------
\* C7: a KeyboardInterrupt during a call of api.hf_hub_download ends the
\* whole run: the retry loop stops and no later target of the list is
\* fetched, skipped as present or counted.
C7_Step ==
    /\ (requests' # requests /\ last' = "interrupt") =>
          /\ pc' = "exit()"
          /\ outcome' = outcome
          /\ succ_count' = succ_count
          /\ idx' = idx
    /\ (pc = "exit()") =>
          /\ pc' = "exit()"
          /\ requests' = requests
          /\ outcome' = outcome
          /\ succ_count' = succ_count
          /\ idx' = idx
          /\ disk' = disk

C7_Cancelled ==
    pc = "exit()" =>
        /\ last = "interrupt"
        /\ download_ret = "unset"
        /\ Len(outcome) = idx - 1
        /\ idx <= Len(download_list)
        /\ ~ENABLED Next

C7_CancelAbortsRun == []C7_Cancelled /\ [][C7_Step]_vars

C7_Witness ==
    /\ pc = "exit()"
    /\ Len(download_list) = 3
    /\ outcome = <<"fetched">>
    /\ idx = 2
    /\ tries = 2
    /\ succ_count = 1

----------------------------------------------------------------------------
\* C8: a target whose expected destination artifact (output_dir joined with
\* the remote path, with the archive suffix removed) already exists is never
\* passed to hf_download_path.
ExpectedArtifact(output_dir, rel_path) ==
    LET p == join(output_dir, rel_path)
    IN  IF EndsWithZip(p) THEN SubSeq(p, 1, Len(p) - 1) ELSE p

C8_PresentNeverFetched ==
    pc = "hf_download_path" =>
        ~exists(disk, ExpectedArtifact(params.output_dir, item.rel_path))

----------------------------------------------------------------------------
\* C9: download returns True exactly when the number of targets that ended
\* already-present or fetched equals the length of the list; when every
\* target of a (non-empty) list is permanently denied the success count is 0
\* and the flag is False.
C9_FlagIsAllSucceeded ==
    pc = "done" =>
        LET good == {k \in 1..Len(outcome) : outcome[k] \in {"already-present", "fetched"}}
        IN  /\ Len(outcome) = Len(download_list)
            /\ download_ret \in {"True", "False"}
            /\ download_ret = "True" <=> Cardinality(good) = Len(download_list)
            /\ succ_count = Cardinality(good)
            /\ (Len(download_list) > 0
                    /\ \A k \in 1..Len(outcome) : outcome[k] = "permanently-denied") =>
                  (succ_count = 0 /\ download_ret = "False")

C9_Witness ==
    /\ pc = "done"
    /\ outcome = <<"already-present", "permanently-denied">>
    /\ download_ret = "False"
    /\ succ_count = 1

----------------------------------------------------------------------------
\* C10: a failure confined to one target (denial, failure after all retries,
\* failure while extracting its archive) never aborts the batch: unless the
\* operator cancels, a run of download ends with every target processed and
\* the summary produced.
C10_FailureNeverAborts ==
    (GdlReturned /\ Terminated /\ pc # "exit()") =>
        /\ pc = "done"
        /\ Len(outcome) = Len(download_list)
        /\ download_ret # "unset"

----------------------------------------------------------------------------
(***************************************************************************)
(* scripts/2_reorganize_to_colmap.py, for one scene.                       *)
(*                                                                         *)
(* A directory is a function from the names of its files to what the file  *)
(* holds; what a file holds is named by where it came from, so that a file *)
(* written over another is told from the file it replaced.  The name of an *)
(* image is the sequence of the atoms of its stem ('.png' is left out:     *)
(* only glob('*.png') files are touched), so that the renamed name         *)
(* f"{stem}_{img_dir.name}{suffix}" is built as the code builds it.        *)
(***************************************************************************)

MaxBuckets == 2     \* images_1 .. images_MaxBuckets in the extracted folder
MaxRuns == 2        \* runs of reorganize_dataset

EmptyDir == <<>>

\* shutil.move(src, dst) of a file: rename over whatever is at dst
Put(dir, name, holds) ==
    [n \in DOMAIN dir \cup {name} |-> IF n = name THEN holds ELSE dir[n]]

\* img_dir.name of the k-th images_* folder
img_dir_name(k) == <<"images_", k>>

\* stems of the png files of a bucket, in the order sorted() gives their paths:
\* 'frame_0001.png' < 'frame_0001_images_2.png' < 'frame_0002.png'
SortedStems ==
    << <<"frame_0001">>, <<"frame_0001", "_", "images_", 2>>, <<"frame_0002">> >>

Stems == {SortedStems[k] : k \in 1..Len(SortedStems)}

RECURSIVE Concat(_)
Concat(seqs) == IF seqs = <<>> THEN <<>> ELSE Head(seqs) \o Concat(Tail(seqs))

\* the files the two for loops of lines 47-49 visit, in order
ImageFiles(buckets) ==
    Concat([k \in 1..MaxBuckets |->
              LET here == SelectSeq(SortedStems, LAMBDA s : s \in buckets[k])
              IN  [j \in 1..Len(here) |-> [bucket |-> k, stem |-> here[j]]]])

\* lines 51-56
dest_file(images, f) ==
    IF f.stem \in DOMAIN images
    THEN f.stem \o <<"_">> \o img_dir_name(f.bucket)
    ELSE f.stem

\* lines 47-59: images/ after the files of todo have been moved
RECURSIVE MoveImages(_, _)
MoveImages(images, todo) ==
    IF todo = <<>> THEN images
    ELSE MoveImages(Put(images, dest_file(images, Head(todo)), Head(todo)), Tail(todo))

colmap_files ==
    <<"images.bin", "images.txt", "cameras.bin", "cameras.txt",
      "points3D.bin", "points3D.txt", "points3D.ply">>

\* one for loop over colmap_files (lines 72-76, 82-86, 91-95): what is found in
\* the folder `here` is moved into sparse/0
RECURSIVE MoveColmap(_, _, _, _)
MoveColmap(sparse0, here, place, k) ==
    IF k > Len(colmap_files) THEN sparse0
    ELSE MoveColmap(IF colmap_files[k] \in here
                    THEN Put(sparse0, colmap_files[k], [at |-> place, name |-> colmap_files[k]])
                    ELSE sparse0,
                    here, place, k + 1)

\* lines 26-97: the scene folder and the extracted folder afterwards, and the
\* pair the function returns
reorganize_to_colmap_structure(ex, tg) ==
    LET todo == ImageFiles(ex.buckets)
        images == MoveImages(tg.images, todo)
        fromRoot == MoveColmap(tg.sparse0, ex.root, "root", 1)
        fromSub == MoveColmap(fromRoot, ex.sub, "subdir", 1)
        fromNested == MoveColmap(fromSub, ex.nested, "subdir/sparse/0", 1)
    IN  [target |-> [exists |-> TRUE,
                     images |-> images,
                     sparse0 |-> fromNested,
                     transforms |-> tg.transforms \/ ex.transforms],
         extracted |-> [buckets |-> [k \in 1..MaxBuckets |-> {}],
                        root |-> {}, sub |-> {}, nested |-> {},
                        transforms |-> FALSE],
         found_colmap |-> (ex.root \cup ex.sub \cup ex.nested) # {},
         image_count |-> Len(todo)]

\* the files of images/ that are not png (a name is a stem, of a png file,
\* or a stem and another suffix)
NotPng == {<<"frame_0001", ".jpg">>}

\* line 152: (target_scene / 'images').glob('*.png')
glob_png(images) == DOMAIN images \ NotPng

\* mutant: any file in images/ counts
images_exist_AnyFile(tg) == tg.exists /\ DOMAIN tg.images # {}

\* lines 152-156
images_exist(tg) == tg.exists /\ glob_png(tg.images) # {}
sparse_exist(tg) ==
    tg.exists /\ ("images.bin" \in DOMAIN tg.sparse0 \/ "images.txt" \in DOMAIN tg.sparse0)

\* mutant: a scene is never taken for reorganized
AlreadyReorganized_Never(tg) == FALSE

\* line 157
AlreadyReorganized(tg) == tg.exists /\ images_exist(tg) /\ sparse_exist(tg)

(* The folders reorganize_dataset can find *)

\* a file that an earlier run of the script left in the scene folder
Earlier(name) == [bucket |-> 0, stem |-> name]

EarlierImages ==
    { EmptyDir,
      [n \in NotPng |-> Earlier(n)],
      [n \in {SortedStems[1]} |-> Earlier(n)],
      [n \in {SortedStems[1], SortedStems[2]} |-> Earlier(n)] }

EarlierSparse ==
    { EmptyDir, [n \in {"images.bin"} |-> [at |-> "earlier run", name |-> n]] }

NoTarget == [exists |-> FALSE, images |-> EmptyDir, sparse0 |-> EmptyDir, transforms |-> FALSE]

Targets ==
    {NoTarget} \cup [exists : {TRUE}, images : EarlierImages, sparse0 : EarlierSparse,
                     transforms : {FALSE}]

ExtractedFolders ==
    [buckets : [1..MaxBuckets -> SUBSET Stems],
     root : {{}, {"images.bin"}, {"cameras.bin"}},
     sub : {{}, {"images.bin"}},
     nested : {{}, {"images.bin"}},
     transforms : BOOLEAN]

ReorgInit ==
    /\ extracted \in ExtractedFolders
    /\ target_scene \in Targets
    /\ reorg_log = <<>>
    /\ DownloadIdle /\ CopyIdle /\ RescaleIdle /\ UndistortIdle

\* lines 157-159: the scene is skipped
ReorgSkips ==
    /\ Len(reorg_log) < MaxRuns
    /\ AlreadyReorganized(target_scene)
    /\ reorg_log' = Append(reorg_log,
                           [status |-> "skipped", image_count |-> <<>>, found_colmap |-> <<>>])
    /\ UNCHANGED <<extracted, target_scene>>
    /\ UNCHANGED <<downloadVars, copyVars, rescaleVars, undistortVars>>

\* lines 161-167: the scene is reorganized
ReorgReorganizes ==
    /\ Len(reorg_log) < MaxRuns
    /\ ~AlreadyReorganized(target_scene)
    /\ LET r == reorganize_to_colmap_structure(extracted, target_scene)
       IN  /\ extracted' = r.extracted
           /\ target_scene' = r.target
           /\ reorg_log' = Append(reorg_log,
                                  [status |-> "reorganized",
                                   image_count |-> <<r.image_count>>,
                                   found_colmap |-> <<r.found_colmap>>])
    /\ UNCHANGED <<downloadVars, copyVars, rescaleVars, undistortVars>>

ReorgNext ==
    \/ ReorgSkips
    \/ ReorgReorganizes

ReorgSpec == ReorgInit /\ [][ReorgNext]_vars

----------------------------------------------------------------------------
(* Properties of scripts/2_reorganize_to_colmap.py *)

\* the scene folder holds at least one png image and an image list
Normalized(tg) ==
    /\ tg.exists
    /\ \E n \in DOMAIN tg.images : n \notin NotPng
    /\ {"images.bin", "images.txt"} \cap DOMAIN tg.sparse0 # {}

ReorgRuns == reorg_log' # reorg_log

LastRun == reorg_log[Len(reorg_log)]

C11_SecondRunSkipped ==
    /\ Len(reorg_log) >= 2
    /\ reorg_log[1].status = "reorganized"
    /\ reorg_log[2].status = "skipped"

\* C11 as stated: a run of reorganize_dataset over a scene folder that is
\* already normalized reports the same imageCount as the first run did.
C11_SameImageCount ==
    C11_SecondRunSkipped => reorg_log[2].image_count = reorg_log[1].image_count

C11_Step ==
    (ReorgRuns /\ Normalized(target_scene))
        => /\ target_scene' = target_scene
           /\ extracted' = extracted
           /\ reorg_log'[Len(reorg_log')].status = "skipped"
           /\ reorg_log'[Len(reorg_log')].image_count = <<>>

\* C11: a run of reorganize_dataset over a scene folder that is already
\* normalized moves no file: the scene folder and the extracted folder are
\* left as they were, so images/ and sparse/0 get no duplicate and no
\* renamed file, and the scene is counted as skipped, with no image count
\* reported for it.
C11_NormalizedIsSkipped == [][C11_Step]_vars

\* the first run moved images and calibration, the second run skipped the scene
C11_Witness ==
    /\ C11_SecondRunSkipped
    /\ reorg_log[1].image_count = <<2>>

C12_Step ==
    (ReorgRuns /\ reorg_log'[Len(reorg_log')].status = "reorganized")
        => LET before == target_scene.images
               after == target_scene'.images
               moved == ImageFiles(extracted.buckets)
           IN  /\ \A n \in DOMAIN before : n \in DOMAIN after /\ after[n] = before[n]
               /\ \A k \in 1..Len(moved) : \E n \in DOMAIN after : after[n] = moved[k]
               /\ Cardinality(DOMAIN after)
                    = Cardinality(DOMAIN before) + reorg_log'[Len(reorg_log')].image_count[1]

\* C12: reorganize_to_colmap_structure never writes an image over another:
\* every file images/ held before is still there, every image moved out of a
\* bucket is in images/ under a name of its own, and images/ has grown by
\* exactly the returned image_count.
C12_NeverOverwrites == [][C12_Step]_vars

----------------------------------------------------------------------------
(***************************************************************************)
(* scripts/4_copy_selected_scenes.py, run with --all.                      *)
(*                                                                         *)
(* A scene folder is a record: whether it exists, its images/ and sparse/  *)
(* sub-trees and the files at its top.  A sub-tree is whether it exists    *)
(* and the set of the files under it, at any depth; a file is the pair of  *)
(* its path and of what it holds ("new" in input_dir, "old" in             *)
(* output_dir).  A call of shutil.rmtree or shutil.copytree can raise:     *)
(* the operation that raises in a call of copy_scene, if one does, is the  *)
(* call's fault, <<>> when none raises.                                    *)
(***************************************************************************)

NumScenes == 2      \* scene folders in input_dir

Missing == [exists |-> FALSE, files |-> {}]
Empty == [exists |-> TRUE, files |-> {}]

SrcSubs == {Missing, Empty, [exists |-> TRUE, files |-> {<<"0/a", "new">>}]}
DstSubs == {Missing, Empty, [exists |-> TRUE, files |-> {<<"0/a", "old">>, <<"0/z", "old">>}]}

SrcTrees == [exists : {TRUE}, images : SrcSubs, sparse : SrcSubs,
             top : {{<<"transforms.json", "new">>}}]
Absent == [exists |-> FALSE, images |-> Missing, sparse |-> Missing, top |-> {}]
DstTrees == {Absent} \cup [exists : {TRUE}, images : DstSubs, sparse : DstSubs,
                           top : {{}, {<<"notes.txt", "old">>}}]

\* the first scene is any scene; the scenes after it are complete in input_dir
\* and absent, complete or without calibration in output_dir
LaterSrc == CHOOSE t \in SrcTrees : t.images.files # {} /\ t.sparse.files # {}
LaterDst ==
    {Absent} \cup {t \in DstTrees : /\ t.exists /\ t.top = {} /\ t.images.files # {}
                                    /\ t.sparse \in {Empty} \cup (DstSubs \ {Missing, Empty})}

\* line 173 with copy_all (lines 42-44): the scene folders, sorted
scenes_to_copy == [k \in 1..NumScenes |-> k]

\* mutant: only a missing directory counts
is_empty_or_missing_OnlyMissing(path) == ~path.exists

\* lines 99-109
is_empty_or_missing(path) == ~path.exists \/ path.files = {}

\* mutant: sparse/ is left out of the copy
copytree_WithoutSparse(tree) == IF "sparse" \in DOMAIN tree THEN [tree EXCEPT !.sparse = Missing] ELSE tree

\* mutant: the copy of a sub-tree has the directory and none of its files
copytree_NoFiles(tree) == IF "files" \in DOMAIN tree THEN Empty ELSE tree

\* shutil.copytree(src, dst) into a place where nothing is: what dst is afterwards
copytree(tree) == tree

\* lines 112-120 and 123-131 for the sub-tree called name
MergeSub(name, s, d, fault) ==
    IF s.exists /\ is_empty_or_missing(d)
    THEN IF d.exists /\ fault = <<name, "rmtree">>
         THEN [sub |-> d, copied |-> FALSE, error |-> TRUE]
         ELSE IF fault = <<name, "copytree">>
         THEN [sub |-> Empty, copied |-> FALSE, error |-> TRUE]
         ELSE [sub |-> copytree(s), copied |-> TRUE, error |-> FALSE]
    ELSE [sub |-> d, copied |-> FALSE, error |-> FALSE]

\* mutant: partial is reported for images/ only
MergeStatus_ImagesOnly(im, sp) ==
    IF im.copied THEN <<TRUE, "partial">> ELSE <<FALSE, "skipped">>

\* lines 96, 117, 128, 133-136
MergeStatus(im, sp) ==
    IF im.copied \/ sp.copied THEN <<TRUE, "partial">> ELSE <<FALSE, "skipped">>

\* mutant: the old folder is not removed, the copy is laid over it
rmtree_scene_Keeps(d) == d

\* line 139
rmtree_scene(d) == Absent

\* lines 80-147: the folder in output_dir afterwards, what is returned, whether
\* an exception leaves the function and whether an operation raised
copy_scene(s, d, ow, fault) ==
    IF ~s.exists THEN [dst |-> d, ret |-> <<FALSE, "error">>, raised |-> FALSE, failed |-> FALSE]
    ELSE IF d.exists /\ ~ow
    THEN LET im == MergeSub("images", s.images, d.images, fault)
             sp == MergeSub("sparse", s.sparse, d.sparse, fault)
         IN  IF im.error
             THEN [dst |-> [d EXCEPT !.images = im.sub],
                   ret |-> <<FALSE, "error">>, raised |-> FALSE, failed |-> TRUE]
             ELSE IF sp.error
             THEN [dst |-> [d EXCEPT !.images = im.sub, !.sparse = sp.sub],
                   ret |-> <<FALSE, "error">>, raised |-> FALSE, failed |-> TRUE]
             ELSE [dst |-> [d EXCEPT !.images = im.sub, !.sparse = sp.sub],
                   ret |-> MergeStatus(im, sp), raised |-> FALSE, failed |-> FALSE]
    ELSE IF d.exists /\ fault = <<"scene", "rmtree">>
    THEN [dst |-> d, ret |-> <<>>, raised |-> TRUE, failed |-> TRUE]
    ELSE LET left == IF d.exists THEN rmtree_scene(d) ELSE d
         IN  IF fault = <<"scene", "copytree">> \/ left.exists
             THEN [dst |-> [left EXCEPT !.exists = TRUE],
                   ret |-> <<FALSE, "error">>, raised |-> FALSE, failed |-> TRUE]
             ELSE [dst |-> copytree(s), ret |-> <<TRUE, "copied">>, raised |-> FALSE,
                   failed |-> FALSE]

Faults == {<<>>} \cup ({"images", "sparse", "scene"} \X {"rmtree", "copytree"})

CopyInit ==
    /\ copy_pc = "copy_scenes"
    /\ src_tree \in [1..NumScenes -> SrcTrees]
    /\ dst_tree \in [1..NumScenes -> DstTrees]
    /\ \A k \in 2..NumScenes : src_tree[k] = LaterSrc /\ dst_tree[k] \in LaterDst
    /\ overwrite \in BOOLEAN
    /\ copy_i = 1
    /\ copy_log = <<>>
    /\ copy_counts = [success |-> 0, partial |-> 0, skip |-> 0, error |-> 0]
    /\ DownloadIdle /\ ReorgIdle /\ RescaleIdle /\ UndistortIdle

\* lines 192-200
Count(counts, ret) ==
    IF ret[1]
    THEN IF ret[2] = "copied" THEN [counts EXCEPT !.success = @ + 1]
         ELSE IF ret[2] = "partial" THEN [counts EXCEPT !.partial = @ + 1]
         ELSE counts
    ELSE IF ret[2] = "skipped" THEN [counts EXCEPT !.skip = @ + 1]
    ELSE [counts EXCEPT !.error = @ + 1]

\* lines 189-200: the for loop from position k of the list order, with the
\* operation that raises (if any) given per scene; what output_dir and the
\* counters are when the loop ends, and whether an exception ended it
RECURSIVE copy_scenes_loop(_, _, _, _, _)
copy_scenes_loop(order, k, dst, counts, faults) ==
    IF k > Len(order) THEN [dst |-> dst, counts |-> counts, raised |-> FALSE]
    ELSE LET scene_name == order[k]
             r == copy_scene(src_tree[scene_name], dst[scene_name], overwrite, faults[scene_name])
             after == [dst EXCEPT ![scene_name] = r.dst]
         IN  IF r.raised THEN [dst |-> after, counts |-> counts, raised |-> TRUE]
             ELSE copy_scenes_loop(order, k + 1, after, Count(counts, r.ret), faults)

\* lines 189-200: copy_scene returns and the scene is counted
CopySceneReturns ==
    /\ copy_pc = "copy_scenes"
    /\ copy_i <= Len(scenes_to_copy)
    /\ \E fault \in Faults :
         LET scene_name == scenes_to_copy[copy_i]
             r == copy_scene(src_tree[scene_name], dst_tree[scene_name], overwrite, fault)
         IN  /\ ~r.raised
             /\ dst_tree' = [dst_tree EXCEPT ![scene_name] = r.dst]
             /\ copy_log' = Append(copy_log,
                                   [ret |-> r.ret, fault |-> fault, failed |-> r.failed,
                                    existed |-> dst_tree[scene_name].exists])
             /\ copy_counts' = Count(copy_counts, r.ret)
    /\ copy_i' = copy_i + 1
    /\ UNCHANGED <<copy_pc, src_tree, overwrite>>
    /\ UNCHANGED <<downloadVars, reorgVars, rescaleVars, undistortVars>>

\* line 190: an exception leaves copy_scene (line 139) and, nothing catching it,
\* copy_scenes and the script
CopySceneRaises ==
    /\ copy_pc = "copy_scenes"
    /\ copy_i <= Len(scenes_to_copy)
    /\ \E fault \in Faults :
         LET scene_name == scenes_to_copy[copy_i]
             r == copy_scene(src_tree[scene_name], dst_tree[scene_name], overwrite, fault)
         IN  /\ r.raised
             /\ dst_tree' = [dst_tree EXCEPT ![scene_name] = r.dst]
    /\ copy_pc' = "Exception"
    /\ UNCHANGED <<src_tree, overwrite, copy_i, copy_log, copy_counts>>
    /\ UNCHANGED <<downloadVars, reorgVars, rescaleVars, undistortVars>>

\* lines 202-208
CopyScenesReturns ==
    /\ copy_pc = "copy_scenes"
    /\ copy_i > Len(scenes_to_copy)
    /\ copy_pc' = "done"
    /\ UNCHANGED <<src_tree, dst_tree, overwrite, copy_i, copy_log, copy_counts>>
    /\ UNCHANGED <<downloadVars, reorgVars, rescaleVars, undistortVars>>

CopyNext ==
    \/ CopySceneReturns
    \/ CopySceneRaises
    \/ CopyScenesReturns

CopySpec == CopyInit /\ [][CopyNext]_vars

----------------------------------------------------------------------------
(* Properties of scripts/4_copy_selected_scenes.py *)

\* copy_scene returns in this step; the scene it was called for, the two
\* folders of the scene before the call and what the call returned
CopyReturns == copy_log' # copy_log
CurSrc == src_tree[scenes_to_copy[copy_i]]
CurDst == dst_tree[scenes_to_copy[copy_i]]
NewDst == dst_tree'[scenes_to_copy[copy_i]]
Returned4 == copy_log'[Len(copy_log')]

\* the sub-tree holds at least one file, at any depth
Populated(sub) == sub.exists /\ sub.files # {}

SubTrees == {"images", "sparse"}

\* the call is a merge: the destination is present and overwrite is false, and
\* no operation of the call is made to fail
MergeCall == CopyReturns /\ CurDst.exists /\ ~overwrite /\ Returned4.fault = <<>>

C13_Step ==
    (CopyReturns /\ ~CurDst.exists /\ Returned4.fault = <<>>)
        => Returned4.ret = <<TRUE, "copied">> /\ NewDst = CurSrc

\* C13: a call of copy_scene whose destination scene folder is absent (and in
\* which no operation fails) copies the whole source scene and returns
\* (True, 'copied'): afterwards the destination tree equals the source tree.
C13_AbsentIsCopied == [][C13_Step]_vars

\* the first scene was absent from output_dir and is now the source scene
C13_Witness ==
    /\ Len(copy_log) >= 1
    /\ ~copy_log[1].existed /\ copy_log[1].fault = <<>>
    /\ copy_log[1].ret = <<TRUE, "copied">>
    /\ dst_tree[1] = src_tree[1] /\ src_tree[1].images.files # {}

C14_StepAsStated ==
    MergeCall
        => \A n \in SubTrees :
             /\ Populated(CurDst[n]) => NewDst[n] = CurDst[n]
             /\ ~Populated(CurDst[n]) => NewDst[n] = CurSrc[n]

C14_Step ==
    MergeCall
        => /\ \A n \in SubTrees :
                /\ Populated(CurDst[n]) => NewDst[n] = CurDst[n]
                /\ (~Populated(CurDst[n]) /\ CurSrc[n].exists) => NewDst[n] = CurSrc[n]
                /\ (~Populated(CurDst[n]) /\ ~CurSrc[n].exists) => NewDst[n] = CurDst[n]
           /\ NewDst.top = CurDst.top
           /\ (Populated(CurDst.images) /\ CurDst.sparse = Empty /\ CurSrc.sparse.exists)
                => NewDst = [CurDst EXCEPT !.sparse = CurSrc.sparse]

Replaced == {n \in SubTrees : CurSrc[n].exists /\ ~Populated(CurDst[n])}

C15_StepAsStated ==
    MergeCall
        => /\ Returned4.ret = <<TRUE, "partial">> <=> Replaced # {}
           /\ Returned4.ret = <<FALSE, "skipped">>
                => \A n \in SubTrees : Populated(CurDst[n])

C15_Step ==
    MergeCall
        => /\ Returned4.ret = <<TRUE, "partial">> <=> Replaced # {}
           /\ Returned4.ret = <<FALSE, "skipped">> <=> Replaced = {}

C16_Step ==
    (CopyReturns /\ CurDst.exists /\ overwrite /\ Returned4.fault = <<>>)
        => Returned4.ret = <<TRUE, "copied">> /\ NewDst = CurSrc

\* C16: with overwrite true and a present destination, a call in which no
\* operation fails returns (True, 'copied') and leaves the destination tree
\* equal to the source tree: no file of the old destination survives.
C16_OverwriteReplaces == [][C16_Step]_vars

\* the first scene was present in output_dir and is now the source scene
C16_Witness ==
    /\ Len(copy_log) >= 1
    /\ overwrite /\ copy_log[1].existed /\ copy_log[1].fault = <<>>
    /\ copy_log[1].ret = <<TRUE, "copied">>
    /\ dst_tree[1] = src_tree[1]

\* C17: an operation that fails while one scene is synchronized makes
\* copy_scene return error for that scene, and copy_scenes goes on: when
\* the script ends every scene has been processed and every failed scene
\* has been counted as failed.
C17_FailureIsIsolated ==
    /\ \A k \in 1..Len(copy_log) : copy_log[k].failed => copy_log[k].ret = <<FALSE, "error">>
    /\ copy_pc # "copy_scenes"
         => /\ Len(copy_log) = Len(scenes_to_copy)
            /\ copy_counts.error
                 = Cardinality({k \in 1..Len(copy_log) : copy_log[k].failed})

----------------------------------------------------------------------------
(***************************************************************************)
(* scripts/5_rescale_cameras.py, for one scene.                            *)
(*                                                                         *)
(* A line of cameras.txt is the sequence of its fields (line.split()): the *)
(* empty sequence for a blank line, a first field "#" for a comment.  The  *)
(* camera model stored in sparse/0 is kept as the lines colmap's           *)
(* model_converter prints for it.  A parameter is a decimal number         *)
(* m * 10^-e, kept as [m, e] with no trailing zero in m, so that equal     *)
(* numbers are equal records; the arithmetic is exact, and the only        *)
(* rounding is that of the format '.10f' of line 117.  The numbers used    *)
(* are not negative, have exact quotients and never lie half way between   *)
(* two numbers of 10 decimals.                                             *)
(***************************************************************************)

MaxCams == 2        \* lines of cameras.txt

decimals == 10      \* f"{p:.10f}"

RECURSIVE Canon(_, _)
Canon(m, e) == IF e > 0 /\ m % 10 = 0 THEN Canon(m \div 10, e - 1) ELSE [m |-> m, e |-> e]

RECURSIVE Pow10(_)
Pow10(n) == IF n = 0 THEN 1 ELSE 10 * Pow10(n - 1)

\* float(f"{p:.10f}"): p rounded to 10 decimals
Format10(p) ==
    IF p.e <= decimals THEN p
    ELSE LET d == Pow10(p.e - decimals)
             q == p.m \div d
             r == p.m % d
         IN  Canon(IF 2 * r > d \/ (2 * r = d /\ q % 2 = 1) THEN q + 1 ELSE q, decimals)

\* p * (num / den)
RECURSIVE Quotient(_, _, _)
Quotient(m, e, den) ==
    IF m % den = 0 THEN Canon(m \div den, e) ELSE Quotient(m * 10, e + 1, den)
Times(p, num, den) == Quotient(p.m * num, p.e, den)

\* mutant: every parameter is scaled by scale_x
scale_AllByX(cam_params, k, img_w, img_h, old_w, old_h) ==
    IF Len(cam_params) >= 4 /\ k <= 4 THEN Times(cam_params[k], img_w, old_w) ELSE cam_params[k]

\* lines 108-114: params[k-1] after the scaling (cam_params is params)
scale(cam_params, k, img_w, img_h, old_w, old_h) ==
    IF Len(cam_params) >= 4 /\ k \in {1, 3} THEN Times(cam_params[k], img_w, old_w)
    ELSE IF Len(cam_params) >= 4 /\ k \in {2, 4} THEN Times(cam_params[k], img_h, old_h)
    ELSE cam_params[k]

\* mutant: the number of fields is not looked at
IsRecord_AnyLength(line) == line # <<>> /\ line[1] # "#"

\* lines 87-94: the line is a camera record
IsRecord(line) == line # <<>> /\ line[1] # "#" /\ Len(line) >= 5

\* lines 99-104: a camera record whose width and height are not the image's
Differs(line, img_w, img_h) == IsRecord(line) /\ ~(line[3] = img_w /\ line[4] = img_h)

\* mutant: width and height are not rewritten
new_line_OldSize(line, img_w, img_h) ==
    IF ~Differs(line, img_w, img_h) THEN line
    ELSE LET cam_params == SubSeq(line, 5, Len(line))
         IN  <<line[1], line[2], line[3], line[4]>> \o
             [k \in 1..Len(cam_params) |->
                Format10(scale(cam_params, k, img_w, img_h, line[3], line[4]))]

\* lines 86-119: what is appended to new_lines for the line
new_line(line, img_w, img_h) ==
    IF ~Differs(line, img_w, img_h) THEN line
    ELSE LET cam_params == SubSeq(line, 5, Len(line))
         IN  <<line[1], line[2], img_w, img_h>> \o
             [k \in 1..Len(cam_params) |->
                Format10(scale(cam_params, k, img_w, img_h, line[3], line[4]))]

\* mutant: the file is always taken for modified
modified_Always(lines, img_w, img_h) == TRUE

\* lines 84, 120
modified(lines, img_w, img_h) == \E k \in 1..Len(lines) : Differs(lines[k], img_w, img_h)

(* The scenes rescale_cameras_for_scene can find *)

ImageSizes == {<<1000, 500>>, <<2000, 1000>>, <<1000, 1000>>}

ParamLists ==
    LET fx == [m |-> 500, e |-> 0]
        cy == [m |-> 250, e |-> 0]
        k1 == [m |-> 12, e |-> 11]
    IN  {<<fx, fx, fx, cy>>, <<fx, fx, fx, cy, k1>>, <<fx, fx, cy>>}

Lines ==
    {<<>>, <<"#", "Camera list">>, <<"1", "PINHOLE", 1000, 500>>}
    \cup {<<"1", "CAMERA", res[1], res[2]>> \o p : res \in ImageSizes, p \in ParamLists}

CameraFiles == UNION {[1..n -> Lines] : n \in 0..MaxCams}

NoDir == [exists |-> FALSE, lines |-> <<>>]

SceneDirs ==
    [image_dir : {[exists |-> FALSE, res |-> <<>>], [exists |-> TRUE, res |-> <<>>]}
                 \cup [exists : {TRUE}, res : ImageSizes],
     sparse_dir : {NoDir} \cup [exists : {TRUE}, lines : CameraFiles],
     backup_dir : {NoDir, [exists |-> TRUE, lines |-> <<<<"#", "earlier model">>>>]},
     txt_dir : {FALSE}]

RescaleInit ==
    /\ scene_dir \in SceneDirs
    /\ backup \in BOOLEAN
    /\ rescale_log = <<>>
    /\ DownloadIdle /\ ReorgIdle /\ CopyIdle /\ UndistortIdle

\* the call returns ret; read says whether cameras.txt was read (line 81),
\* backup is the argument the call was made with
Logged(ret, read) ==
    rescale_log' = Append(rescale_log, [ret |-> ret, read |-> read, backup |-> backup])

img_w == scene_dir.image_dir.res[1]
img_h == scene_dir.image_dir.res[2]

\* lines 49-57
RescaleRefuses ==
    /\ Len(rescale_log) < MaxRuns
    /\ \/ ~scene_dir.image_dir.exists /\ Logged(<<FALSE, "Images directory not found">>, FALSE)
       \/ /\ scene_dir.image_dir.exists /\ ~scene_dir.sparse_dir.exists
          /\ Logged(<<FALSE, "Sparse/0 directory not found">>, FALSE)
       \/ /\ scene_dir.image_dir.exists /\ scene_dir.sparse_dir.exists
          /\ scene_dir.image_dir.res = <<>>
          /\ Logged(<<FALSE, "No images found">>, FALSE)
    /\ UNCHANGED scene_dir /\ backup' \in BOOLEAN
    /\ UNCHANGED <<downloadVars, reorgVars, copyVars, undistortVars>>

\* lines 49-63: the checks pass and the temporary directory is made
Converts ==
    /\ Len(rescale_log) < MaxRuns
    /\ scene_dir.image_dir.exists /\ scene_dir.sparse_dir.exists
    /\ scene_dir.image_dir.res # <<>>

\* mutant: the backup is made before the conversion
RescaleBin2TxtFails_AfterBackup ==
    /\ Converts
    /\ scene_dir' = [scene_dir EXCEPT
                       !.backup_dir = [exists |-> TRUE, lines |-> scene_dir.sparse_dir.lines],
                       !.txt_dir = FALSE]
    /\ Logged(<<FALSE, "COLMAP error">>, FALSE)
    /\ backup' \in BOOLEAN
    /\ UNCHANGED <<downloadVars, reorgVars, copyVars, undistortVars>>

\* lines 73, 150-153: model_converter fails on sparse/0
RescaleBin2TxtFails ==
    /\ Converts
    /\ scene_dir' = [scene_dir EXCEPT !.txt_dir = FALSE]
    /\ Logged(<<FALSE, "COLMAP error">>, FALSE)
    /\ backup' \in BOOLEAN
    /\ UNCHANGED <<downloadVars, reorgVars, copyVars, undistortVars>>

\* lines 76-78: model_converter returns but there is no cameras.txt
RescaleNoCamFile ==
    /\ Converts
    /\ scene_dir' = [scene_dir EXCEPT !.txt_dir = TRUE]
    /\ Logged(<<FALSE, "cam.txt not found after conversion">>, FALSE)
    /\ backup' \in BOOLEAN
    /\ UNCHANGED <<downloadVars, reorgVars, copyVars, undistortVars>>

\* lines 80-125: no camera record differs from the image
RescaleAlreadyMatches ==
    /\ Converts
    /\ ~modified(scene_dir.sparse_dir.lines, img_w, img_h)
    /\ scene_dir' = [scene_dir EXCEPT !.txt_dir = FALSE]
    /\ Logged(<<TRUE, "Camera already matches">>, TRUE)
    /\ backup' \in BOOLEAN
    /\ UNCHANGED <<downloadVars, reorgVars, copyVars, undistortVars>>

\* mutant: the backup is made again over the one that is there
backup_made_Again ==
    IF backup
    THEN [exists |-> TRUE, lines |-> scene_dir.sparse_dir.lines]
    ELSE scene_dir.backup_dir

\* lines 127-130
backup_made ==
    IF backup /\ ~scene_dir.backup_dir.exists
    THEN [exists |-> TRUE, lines |-> scene_dir.sparse_dir.lines]
    ELSE scene_dir.backup_dir

\* lines 80-120, 127-147: the camera records are rewritten
RescaleRescales ==
    /\ Converts
    /\ modified(scene_dir.sparse_dir.lines, img_w, img_h)
    /\ scene_dir' = [scene_dir EXCEPT
                       !.backup_dir = backup_made,
                       !.sparse_dir.lines = [k \in 1..Len(@) |-> new_line(@[k], img_w, img_h)],
                       !.txt_dir = FALSE]
    /\ Logged(<<TRUE, "Rescaled">>, TRUE)
    /\ backup' \in BOOLEAN
    /\ UNCHANGED <<downloadVars, reorgVars, copyVars, undistortVars>>

\* lines 143, 150-153: model_converter fails on the rewritten text
RescaleTxt2BinFails ==
    /\ Converts
    /\ modified(scene_dir.sparse_dir.lines, img_w, img_h)
    /\ scene_dir' = [scene_dir EXCEPT !.backup_dir = backup_made, !.txt_dir = FALSE]
    /\ Logged(<<FALSE, "COLMAP error">>, TRUE)
    /\ backup' \in BOOLEAN
    /\ UNCHANGED <<downloadVars, reorgVars, copyVars, undistortVars>>

RescaleNext ==
    \/ RescaleRefuses
    \/ RescaleBin2TxtFails
    \/ RescaleNoCamFile
    \/ RescaleAlreadyMatches
    \/ RescaleRescales
    \/ RescaleTxt2BinFails

RescaleSpec == RescaleInit /\ [][RescaleNext]_vars

----------------------------------------------------------------------------
(* Properties of scripts/5_rescale_cameras.py *)

\* rescale_cameras_for_scene returns in this step; what it returned
RescaleReturns == rescale_log' # rescale_log
Returned5 == rescale_log'[Len(rescale_log')]

\* a line of the camera list that is a camera record: CAMERA_ID MODEL WIDTH
\* HEIGHT and at least one parameter
CameraRecord(line) == Len(line) >= 5 /\ line[1] # "#"

CameraLines == scene_dir.sparse_dir.lines
TrueSize == scene_dir.image_dir.res

\* the record declares the size of the image
Declares(line, size) == line[3] = size[1] /\ line[4] = size[2]

C18_Step ==
    (/\ RescaleReturns /\ Returned5.read
     /\ \A k \in 1..Len(CameraLines) :
          CameraRecord(CameraLines[k]) => Declares(CameraLines[k], TrueSize))
        => /\ Returned5.ret = <<TRUE, "Camera already matches">>
           /\ scene_dir'.sparse_dir = scene_dir.sparse_dir
           /\ scene_dir'.backup_dir = scene_dir.backup_dir
           /\ ~scene_dir'.txt_dir

\* C18: when the camera list has been read and every camera record in it
\* already declares the width and height of the image, the call is a no-op
\* on the scene: it returns (True, 'Camera already matches ...'), sparse/0 is
\* as it was, no sparse/0_backup is made even with backup true, and
\* sparse/0_txt_temp is gone.
C18_MatchingIsNoOp == [][C18_Step]_vars

\* a scene with a matching camera record, backup asked for, no backup there
C18_Witness ==
    /\ Len(rescale_log) = 1
    /\ rescale_log[1].ret = <<TRUE, "Camera already matches">>
    /\ rescale_log[1].backup /\ ~scene_dir.backup_dir.exists /\ ~scene_dir.txt_dir
    /\ \E k \in 1..Len(CameraLines) : CameraRecord(CameraLines[k])

\* the factor the parameter at position k (from 1) of n is to be scaled by, as
\* <<numerator, denominator>>
Factor(k, n, old, size) ==
    IF n >= 4 /\ k \in {1, 3} THEN <<size[1], old[3]>>
    ELSE IF n >= 4 /\ k \in {2, 4} THEN <<size[2], old[4]>>
    ELSE <<1, 1>>

\* the records a run has rewritten: position, old line, new line
Rewritten ==
    {k \in 1..Len(CameraLines) :
        /\ RescaleReturns /\ Returned5.ret = <<TRUE, "Rescaled">>
        /\ CameraRecord(CameraLines[k]) /\ ~Declares(CameraLines[k], TrueSize)}

C19_StepAsStated ==
    \A k \in Rewritten :
        LET old == CameraLines[k]
            new == scene_dir'.sparse_dir.lines[k]
            n == Len(old) - 4
        IN  /\ Len(new) = Len(old) /\ Declares(new, TrueSize)
            /\ \A j \in 1..n :
                 new[4 + j] = Times(old[4 + j], Factor(j, n, old, TrueSize)[1],
                                    Factor(j, n, old, TrueSize)[2])

\* C19 as stated: in a rewritten record the parameters at positions 0 and 2
\* are the old ones times trueWidth / declaredWidth, those at positions 1 and
\* 3 the old ones times trueHeight / declaredHeight, and every other
\* parameter is numerically unchanged.
C19_ExactScaling == [][C19_StepAsStated]_vars

C19_Step ==
    \A k \in Rewritten :
        LET old == CameraLines[k]
            new == scene_dir'.sparse_dir.lines[k]
            n == Len(old) - 4
        IN  /\ Len(new) = Len(old) /\ new[1] = old[1] /\ new[2] = old[2]
            /\ Declares(new, TrueSize)
            /\ \A j \in 1..n :
                 new[4 + j] = Format10(Times(old[4 + j], Factor(j, n, old, TrueSize)[1],
                                             Factor(j, n, old, TrueSize)[2]))
            /\ (/\ Len(old) = 8 /\ old[3] = 1000 /\ old[4] = 500 /\ TrueSize = <<2000, 1000>>
                /\ SubSeq(old, 5, 8) = <<[m |-> 500, e |-> 0], [m |-> 500, e |-> 0],
                                         [m |-> 500, e |-> 0], [m |-> 250, e |-> 0]>>)
                 => SubSeq(new, 3, 8) = <<2000, 1000, [m |-> 1000, e |-> 0], [m |-> 1000, e |-> 0],
                                          [m |-> 1000, e |-> 0], [m |-> 500, e |-> 0]>>

\* C19: a record whose declared size differs from the image's is rewritten
\* with the image's width and height; with at least 4 parameters, those at
\* positions 0 and 2 are the old ones times trueWidth / declaredWidth and
\* those at positions 1 and 3 the old ones times trueHeight / declaredHeight;
\* every other parameter keeps its value; and every parameter, scaled or
\* not, is rounded to 10 decimals.  Declared (1000, 500), true (2000, 1000),
\* fx = fy = cx = 500, cy = 250 gives 2000, 1000, 1000, 1000, 1000, 500.
C19_ScalingRoundedTo10 == [][C19_Step]_vars

\* the record of the example has been rewritten
C19_Witness ==
    /\ Len(rescale_log) = 1 /\ rescale_log[1].ret = <<TRUE, "Rescaled">>
    /\ scene_dir.backup_dir.exists /\ Len(scene_dir.backup_dir.lines) >= 1
    /\ scene_dir.backup_dir.lines[1]
         = <<"1", "CAMERA", 1000, 500, [m |-> 500, e |-> 0], [m |-> 500, e |-> 0],
             [m |-> 500, e |-> 0], [m |-> 250, e |-> 0]>>
    /\ CameraLines[1]
         = <<"1", "CAMERA", 2000, 1000, [m |-> 1000, e |-> 0], [m |-> 1000, e |-> 0],
             [m |-> 1000, e |-> 0], [m |-> 500, e |-> 0]>>

C20_Step ==
    (/\ RescaleReturns /\ Returned5.read
     /\ Len(rescale_log) >= 1 /\ rescale_log[Len(rescale_log)].ret[1])
        => /\ Returned5.ret = <<TRUE, "Camera already matches">>
           /\ scene_dir'.sparse_dir = scene_dir.sparse_dir
           /\ scene_dir'.backup_dir = scene_dir.backup_dir

\* C20: a run of rescale_cameras_for_scene that follows a successful run on
\* the same scene, the images being the same, finds the camera list
\* consistent: it returns (True, 'Camera already matches ...') and leaves the
\* camera records and the backup as the first run left them.
C20_SecondRunIsNoOp == [][C20_Step]_vars

\* the first run rewrote a record, the second found nothing to do
C20_Witness ==
    /\ Len(rescale_log) >= 2
    /\ rescale_log[1].ret = <<TRUE, "Rescaled">>
    /\ rescale_log[2].ret = <<TRUE, "Camera already matches">>

----------------------------------------------------------------------------
(* Properties of scripts/5_rescale_cameras.py, continued *)

\* width and height change by the same ratio
SameRatio(old, size) == size[1] * old[4] = size[2] * old[3]

C21_Step ==
    (RescaleReturns /\ Returned5.ret[1])
        => \A k \in 1..Len(CameraLines) :
             LET old == CameraLines[k]
                 new == scene_dir'.sparse_dir.lines[k]
                 n == Len(old) - 4
             IN  CameraRecord(old)
                   => /\ Len(new) = Len(old) /\ Declares(new, TrueSize)
                      /\ Declares(old, TrueSize) => new = old
                      /\ (~Declares(old, TrueSize) /\ n >= 4)
                           => \A j \in 1..4 :
                                new[4 + j] = Format10(Times(old[4 + j],
                                                            Factor(j, n, old, TrueSize)[1],
                                                            Factor(j, n, old, TrueSize)[2]))
                      /\ (~Declares(old, TrueSize) /\ n < 4 /\ SameRatio(old, TrueSize))
                           => \A j \in 1..n :
                                new[4 + j] = Format10(Times(old[4 + j], TrueSize[1], old[3]))

\* C21: after a successful call every camera record of the list declares
\* the width and height of the image, and the focal lengths and the
\* principal point of every record that was rewritten have been scaled by
\* the ratios of width and height (up to the 10 decimals they are written
\* with): with at least 4 parameters the first four, by position; with
\* fewer, and width and height changing by one ratio, all of them by it.
C21_EveryRecordReconciled == [][C21_Step]_vars

\* a record of the list differs from the image
SomeRecordDiffers ==
    \E k \in 1..Len(CameraLines) :
        CameraRecord(CameraLines[k]) /\ ~Declares(CameraLines[k], TrueSize)

C25_Step ==
    scene_dir'.backup_dir # scene_dir.backup_dir
        => /\ ~scene_dir.backup_dir.exists /\ backup /\ SomeRecordDiffers
           /\ scene_dir'.backup_dir = [exists |-> TRUE, lines |-> CameraLines]
           /\ \A k \in 1..Len(rescale_log) : rescale_log[k].ret # <<TRUE, "Rescaled">>

\* C25: sparse/0_backup changes only by being created, and that only in a
\* run that finds a record to modify, with backup true and no backup there;
\* it is then the calibration of that moment, which no earlier run has
\* rescaled.  A backup that exists is never written again.
C25_BackupMadeOnce == [][C25_Step]_vars

\* the first run made the backup and rescaled, the second run left both alone
C25_Witness ==
    /\ Len(rescale_log) = 2
    /\ rescale_log[1].ret = <<TRUE, "Rescaled">> /\ rescale_log[1].backup
    /\ rescale_log[2].backup
    /\ scene_dir.backup_dir.exists
    /\ \E k \in 1..Len(scene_dir.backup_dir.lines) : CameraRecord(scene_dir.backup_dir.lines[k])
    /\ scene_dir.backup_dir.lines # CameraLines

\* C26: whenever rescale_cameras_for_scene has returned, sparse/0_txt_temp
\* does not exist.
C26_TempDirRemoved == rescale_log # <<>> => ~scene_dir.txt_dir

C27_Step ==
    (RescaleReturns /\ Returned5.ret = <<TRUE, "Rescaled">>)
        => /\ Len(scene_dir'.sparse_dir.lines) = Len(CameraLines)
           /\ \A k \in 1..Len(CameraLines) :
                /\ ~CameraRecord(CameraLines[k]) => scene_dir'.sparse_dir.lines[k] = CameraLines[k]
                /\ CameraRecord(CameraLines[k])
                     => Declares(scene_dir'.sparse_dir.lines[k], TrueSize)

C27_NeverRefused ==
    \A k \in 1..Len(rescale_log) :
        rescale_log[k].read => rescale_log[k].ret[2] \in {"Rescaled", "Camera already matches",
                                                          "COLMAP error"}

\* C27: in the rewritten camera list the comment lines, the blank lines and
\* the lines of fewer than 5 fields are where they were and as they were,
\* and every camera record beside them declares the size of the image; a
\* list that has been read is never refused because of such a line.
C27_OtherLinesPassThrough == [][C27_Step]_vars /\ []C27_NeverRefused

\* a list with a line of 4 fields and a camera record has been rewritten
C27_Witness ==
    /\ Len(rescale_log) = 1 /\ rescale_log[1].ret = <<TRUE, "Rescaled">>
    /\ Len(CameraLines) = 2
    /\ CameraLines[1] = <<"1", "PINHOLE", 1000, 500>>
    /\ CameraRecord(CameraLines[2])
    /\ TrueSize # <<1000, 500>>

C28_Step ==
    (RescaleReturns /\ Returned5.ret = <<FALSE, "COLMAP error">> /\ ~Returned5.read)
        => /\ scene_dir'.sparse_dir = scene_dir.sparse_dir
           /\ scene_dir'.backup_dir = scene_dir.backup_dir

\* C28: a call in which the conversion of sparse/0 to text fails returns
\* (False, 'COLMAP error: ...') and leaves sparse/0 and sparse/0_backup as
\* they were: nothing is written and no backup is made.
C28_FailedConversionTouchesNothing == [][C28_Step]_vars

\* the conversion failed for a scene with a record to rescale and backup asked for
C28_Witness ==
    /\ Len(rescale_log) = 1
    /\ rescale_log[1] = [ret |-> <<FALSE, "COLMAP error">>, read |-> FALSE, backup |-> TRUE]
    /\ ~scene_dir.backup_dir.exists
    /\ SomeRecordDiffers


(* Properties of scripts/2_reorganize_to_colmap.py, continued *)

Reorganizes == ReorgRuns /\ reorg_log'[Len(reorg_log')].status = "reorganized"

\* the artifact names the extracted folder holds somewhere
FoundNames == extracted.root \cup extracted.sub \cup extracted.nested

\* the earliest of the searched locations that holds the artifact
FirstLocation(name) ==
    IF name \in extracted.root THEN "root"
    ELSE IF name \in extracted.sub THEN "subdir"
    ELSE "subdir/sparse/0"

C23_Step ==
    Reorganizes
        => /\ \A name \in FoundNames :
                /\ name \in DOMAIN target_scene'.sparse0
                /\ target_scene'.sparse0[name] = [at |-> FirstLocation(name), name |-> name]
           /\ reorg_log'[Len(reorg_log')].found_colmap = <<FoundNames # {}>>

\* C23 as stated: after reorganize_to_colmap_structure every artifact name
\* found in the extracted folder is in sparse/0, as the copy of the earliest
\* of the locations root, subdirectory, subdirectory/sparse/0 that held it,
\* and found_colmap is true exactly when an artifact was found.
C23_FirstLocationWins == [][C23_Step]_vars

C24_Step ==
    ReorgRuns
        => /\ reorg_log'[Len(reorg_log')].status = "skipped" <=> Normalized(target_scene)
           /\ Normalized(target_scene)
                => target_scene' = target_scene /\ extracted' = extracted
           /\ ~Normalized(target_scene)
                => /\ reorg_log'[Len(reorg_log')].status = "reorganized"
                   /\ reorg_log'[Len(reorg_log')].image_count = <<Len(ImageFiles(extracted.buckets))>>
                   /\ FoundNames \subseteq DOMAIN target_scene'.sparse0
                   /\ \A k \in 1..MaxBuckets : extracted'.buckets[k] = {}
                   /\ extracted'.root \cup extracted'.sub \cup extracted'.nested = {}

\* C24: reorganize_dataset skips a scene, moving nothing and counting it as
\* skipped, exactly when images/ of the scene folder holds at least one png
\* file and sparse/0 holds images.bin or images.txt; otherwise (also with
\* only one of the two) the scene is reorganized: every image of the buckets
\* and every calibration file of the extracted folder is moved out of it.
C24_SkippedIffNormalized == [][C24_Step]_vars

C24_StepAsStated ==
    ReorgRuns
        => (reorg_log'[Len(reorg_log')].status = "skipped"
              <=> /\ target_scene.exists
                  /\ DOMAIN target_scene.images # {}
                  /\ {"images.bin", "images.txt"} \cap DOMAIN target_scene.sparse0 # {})

\* C24 as stated: a scene is skipped exactly when images/ of the scene
\* folder is not empty and sparse/0 holds images.bin or images.txt.
C24_SkippedIffNonEmpty == [][C24_StepAsStated]_vars

\* a scene folder with an image list and no image was reorganized, and
\* skipped by the next run
C24_Witness ==
    /\ Len(reorg_log) = 2
    /\ reorg_log[1].status = "reorganized" /\ reorg_log[1].found_colmap = <<FALSE>>
    /\ reorg_log[1].image_count = <<1>>
    /\ reorg_log[2].status = "skipped"
    /\ target_scene.sparse0["images.bin"].at = "earlier run"


(* Properties of scripts/4_copy_selected_scenes.py, continued *)

\* the orders the list of scenes can be given in
Orders ==
    { o \in [1..NumScenes -> 1..NumScenes] : \A a, b \in 1..NumScenes : o[a] = o[b] => a = b }

NoCounts == [success |-> 0, partial |-> 0, skip |-> 0, error |-> 0]

\* copy_scenes has not started on its list
BeforeLoop == copy_pc = "copy_scenes" /\ copy_i = 1 /\ copy_log = <<>>

\* what copy_scenes leaves when it takes the scenes in that order
EndState(order, faults) == copy_scenes_loop(order, 1, dst_tree, NoCounts, faults)

\* C29 as stated: whatever operation fails for which scene, copy_scenes
\* leaves the same output_dir and the same counts of copied, partial,
\* skipped and error for every order of the list of scenes.
C29_OrderIsCosmetic ==
    BeforeLoop
        => \A faults \in [1..NumScenes -> Faults] :
             \A o \in Orders :
                LET one == EndState(scenes_to_copy, faults)
                    other == EndState(o, faults)
                IN  other.dst = one.dst /\ other.counts = one.counts

\* a sub-tree of the source scene is a directory without files, and the
\* destination holds no file for it
CopiesNothing(s, d) ==
    \E n \in SubTrees : s[n].exists /\ s[n].files = {} /\ ~Populated(d[n])

C30_StepAsStated ==
    (CopyReturns /\ ~overwrite /\ Returned4.ret \in {<<TRUE, "copied">>, <<TRUE, "partial">>})
        => LET again == copy_scene(CurSrc, NewDst, overwrite, <<>>)
           IN  again.ret = <<FALSE, "skipped">> /\ again.dst = NewDst

\* C30 as stated: with overwrite false, after a call of copy_scene that
\* returned copied or partial, a second call with the same arguments
\* returns skipped and leaves the destination as it is.
C30_SecondCallSkips == [][C30_StepAsStated]_vars

C30_Step ==
    (CopyReturns /\ ~overwrite /\ Returned4.ret \in {<<TRUE, "copied">>, <<TRUE, "partial">>})
        => LET again == copy_scene(CurSrc, NewDst, overwrite, <<>>)
           IN  /\ again.dst = NewDst /\ ~again.raised /\ ~again.failed
               /\ again.ret = <<FALSE, "skipped">> <=> ~CopiesNothing(CurSrc, CurDst)
               /\ CopiesNothing(CurSrc, CurDst) => again.ret = <<TRUE, "partial">>

\* C30: with overwrite false, after a call of copy_scene that returned
\* copied or partial, a second call with the same arguments in which no
\* operation fails leaves every file of the destination as it is; it
\* returns skipped, unless images/ or sparse/ of the source scene is a
\* directory without files for which the destination held no file: then
\* the empty directory is copied again and the call returns partial.
C30_SecondCallChangesNothing == [][C30_Step]_vars

\* the first scene was merged into a destination that lacked a sub-tree, and
\* a second call would skip it
C30_Witness ==
    /\ Len(copy_log) >= 1 /\ ~overwrite
    /\ copy_log[1].ret = <<TRUE, "partial">>
    /\ Populated(src_tree[1].images) /\ Populated(src_tree[1].sparse)
    /\ copy_scene(src_tree[1], dst_tree[1], overwrite, <<>>).ret = <<FALSE, "skipped">>


----------------------------------------------------------------------------
(***************************************************************************)
(* scripts/6_undistort.py: main runs run_colmap_undistort over the scene   *)
(* folders of input_dir, in sorted order.  A scene folder of input_dir is  *)
(* [images, sparse0], telling whether images/ and sparse/0 exist; a scene  *)
(* folder of output_dir is [exists, undistorted], undistorted telling      *)
(* whether it holds the result of a finished image_undistorter run.  The   *)
(* way `colmap image_undistorter` ends is an input of the call: exit       *)
(* status 0, a non-zero exit status, or the program cannot be started.     *)
(***************************************************************************)

NumDirs == 3        \* scene folders in input_dir

NoOutput == [exists |-> FALSE, undistorted |-> FALSE]

Exits == {"0", "1", "not started"}

\* mutant: the output folder is made before the scene is looked at
run_colmap_undistort_MkdirFirst(scene, out, exit) ==
    LET made == [out EXCEPT !.exists = TRUE]
    IN  IF ~scene.images \/ ~scene.sparse0
        THEN [out |-> made, invoked |-> FALSE, ret |-> FALSE, raised |-> FALSE]
        ELSE IF exit = "0"
        THEN [out |-> [exists |-> TRUE, undistorted |-> TRUE],
              invoked |-> TRUE, ret |-> TRUE, raised |-> FALSE]
        ELSE [out |-> made, invoked |-> exit = "1", ret |-> FALSE, raised |-> exit # "1"]

\* lines 8-55: the folder in output_dir afterwards, whether the tool ran, what
\* is returned and whether an exception leaves the function
run_colmap_undistort(scene, out, exit) ==
    IF ~scene.images \/ ~scene.sparse0
    THEN [out |-> out, invoked |-> FALSE, ret |-> FALSE, raised |-> FALSE]
    ELSE LET made == [out EXCEPT !.exists = TRUE]
         IN  IF exit = "0"
             THEN [out |-> [exists |-> TRUE, undistorted |-> TRUE],
                   invoked |-> TRUE, ret |-> TRUE, raised |-> FALSE]
             ELSE IF exit = "1"
             THEN [out |-> made, invoked |-> TRUE, ret |-> FALSE, raised |-> FALSE]
             ELSE [out |-> made, invoked |-> FALSE, ret |-> FALSE, raised |-> TRUE]

\* lines 82-83: the scene folders, sorted
scenes == [k \in 1..NumDirs |-> k]

UndistortInit ==
    /\ undistort_pc = "main"
    /\ input_scenes \in [1..NumDirs -> [images : BOOLEAN, sparse0 : BOOLEAN]]
    /\ output_scenes \in [1..NumDirs -> {NoOutput, [exists |-> TRUE, undistorted |-> TRUE]}]
    /\ undistort_i = 1
    /\ success_count = 0
    /\ failed_scenes = <<>>
    /\ undistort_log = <<>>
    /\ DownloadIdle /\ ReorgIdle /\ CopyIdle /\ RescaleIdle

\* lines 93-98: run_colmap_undistort returns and the scene is counted
UndistortReturns ==
    /\ undistort_pc = "main"
    /\ undistort_i <= Len(scenes)
    /\ \E exit \in Exits :
         LET scene == scenes[undistort_i]
             r == run_colmap_undistort(input_scenes[scene], output_scenes[scene], exit)
         IN  /\ ~r.raised
             /\ output_scenes' = [output_scenes EXCEPT ![scene] = r.out]
             /\ undistort_log' = Append(undistort_log,
                                        [scene |-> scene, ret |-> r.ret, invoked |-> r.invoked])
             /\ IF r.ret
                THEN success_count' = success_count + 1 /\ UNCHANGED failed_scenes
                ELSE failed_scenes' = Append(failed_scenes, scene) /\ UNCHANGED success_count
    /\ undistort_i' = undistort_i + 1
    /\ UNCHANGED <<undistort_pc, input_scenes>>
    /\ UNCHANGED <<downloadVars, reorgVars, copyVars, rescaleVars>>

\* line 44: subprocess.run raises something that is not CalledProcessError
\* (colmap is not installed); nothing catches it
UndistortRaises ==
    /\ undistort_pc = "main"
    /\ undistort_i <= Len(scenes)
    /\ \E exit \in Exits :
         LET scene == scenes[undistort_i]
             r == run_colmap_undistort(input_scenes[scene], output_scenes[scene], exit)
         IN  /\ r.raised
             /\ output_scenes' = [output_scenes EXCEPT ![scene] = r.out]
    /\ undistort_pc' = "Exception"
    /\ UNCHANGED <<input_scenes, undistort_i, success_count, failed_scenes, undistort_log>>
    /\ UNCHANGED <<downloadVars, reorgVars, copyVars, rescaleVars>>

\* lines 100-110: the summary
UndistortMainReturns ==
    /\ undistort_pc = "main"
    /\ undistort_i > Len(scenes)
    /\ undistort_pc' = "done"
    /\ UNCHANGED <<input_scenes, output_scenes, undistort_i, success_count, failed_scenes,
                   undistort_log>>
    /\ UNCHANGED <<downloadVars, reorgVars, copyVars, rescaleVars>>

UndistortNext ==
    \/ UndistortReturns
    \/ UndistortRaises
    \/ UndistortMainReturns

UndistortSpec == UndistortInit /\ [][UndistortNext]_vars

----------------------------------------------------------------------------
(* Properties of scripts/6_undistort.py *)

UndistortCalled == undistort_log' # undistort_log

Returned6 == undistort_log'[Len(undistort_log')]

\* the scene the loop is at lacks images/ or sparse/0
Incomplete ==
    ~input_scenes[scenes[undistort_i]].images \/ ~input_scenes[scenes[undistort_i]].sparse0

C22_Step ==
    UndistortCalled
        => /\ Incomplete
                => /\ ~Returned6.ret /\ ~Returned6.invoked
                   /\ output_scenes' = output_scenes
           /\ ~Returned6.ret
                => /\ undistort_pc' = "main" /\ undistort_i' = undistort_i + 1
                   /\ failed_scenes' = Append(failed_scenes, scenes[undistort_i])
                   /\ success_count' = success_count

C22_Counted ==
    /\ undistort_pc \in {"main", "done"}
         => /\ success_count + Len(failed_scenes) = Len(undistort_log)
            /\ \A k \in 1..Len(undistort_log) : undistort_log[k].scene = scenes[k]
    /\ undistort_pc = "done"
         => /\ Len(undistort_log) = Len(scenes)
            /\ success_count + Len(failed_scenes) = Len(scenes)

\* C22: run_colmap_undistort on a scene without images/ or sparse/0 returns
\* False without running the tool and leaves output_dir as it is; a scene
\* that fails, skipped or with a non-zero exit of the tool, is appended to
\* failed_scenes and the loop goes on with the next scene, so that when
\* main prints its summary every scene has been processed in turn and
\* success_count plus the number of failed scenes is the number of scenes.
C22_FailureDoesNotAbort == [][C22_Step]_vars /\ []C22_Counted

\* a skipped scene without output folder, then a scene the tool failed on,
\* then a scene that was undistorted, and the summary
C22_Witness ==
    /\ undistort_pc = "done"
    /\ ~undistort_log[1].ret /\ ~undistort_log[1].invoked /\ ~output_scenes[1].exists
    /\ ~undistort_log[2].ret /\ undistort_log[2].invoked
    /\ undistort_log[3].ret /\ output_scenes[3].undistorted
    /\ success_count = 1 /\ failed_scenes = <<1, 2>>

====
